---- MODULE Spec2Model ----
(***************************************************************************)
(* Model of the Johnathan agent: the SSE aggregator of                     *)
(* send_messages_streaming (src/src/api/client.rs), the REPL driver        *)
(* (src/src/main.rs) and the tool registry (src/src/tools/registry.rs).    *)
(*                                                                         *)
(* Strings that the program concatenates or parses are sequences of        *)
(* pieces (one-character strings for JSON text).  Option<T> is a sequence  *)
(* of length zero (None) or one (Some).                                    *)
(***************************************************************************)
EXTENDS Integers, Sequences, FiniteSets, TLC

\* ------------------------------------------------------------------ bounds
\* Longest stream of lines one call of send_messages_streaming is fed.
MaxLines == 5
\* Most calls of read_input in one run of the REPL.
MaxPrompts == 3
\* Most calls of ToolRegistry::register on one registry.
MaxRegistrations == 3

\* ------------------------------------------------------------------ Option
None == <<>>
Some(x) == <<x>>
IsSome(o) == Len(o) = 1
Get(o) == o[1]

\* ------------------------------------------------------------------ serde_json::Value
\* serde_json::Value restricted to objects, strings and non-negative integers.
\* An object is its set of <<key, value>> members.
JNum(n) == [t |-> "num", n |-> n, s |-> <<>>, m |-> {}]
JStr(s) == [t |-> "str", n |-> 0, s |-> s, m |-> {}]
JObj(m) == [t |-> "obj", n |-> 0, s |-> <<>>, m |-> m]
\* Value::Object(serde_json::Map::new())
EmptyObject == JObj({})

Digits == {"0", "1", "2", "3", "4", "5", "6", "7", "8", "9"}
DigitVal(c) ==
  CASE c = "0" -> 0 [] c = "1" -> 1 [] c = "2" -> 2 [] c = "3" -> 3 [] c = "4" -> 4
    [] c = "5" -> 5 [] c = "6" -> 6 [] c = "7" -> 7 [] c = "8" -> 8 [] c = "9" -> 9

\* A parse step: ok, the value read, and the position after it.
POk(v, p) == [ok |-> TRUE, v |-> v, p |-> p]
PFail == [ok |-> FALSE, v |-> EmptyObject, p |-> 0]

RECURSIVE SkipWs(_, _)
SkipWs(s, i) == IF i <= Len(s) /\ s[i] = " " THEN SkipWs(s, i + 1) ELSE i

RECURSIVE ScanDigits(_, _)
\* position after the run of digits starting at i
ScanDigits(s, i) == IF i <= Len(s) /\ s[i] \in Digits THEN ScanDigits(s, i + 1) ELSE i

RECURSIVE DigitsVal(_, _, _)
DigitsVal(s, i, j) == IF j < i THEN 0 ELSE DigitsVal(s, i, j - 1) * 10 + DigitVal(s[j])

\* a number whose first digit is at i; a leading zero ends the number
ParseNumber(s, i) ==
  LET j == IF s[i] = "0" THEN i + 1 ELSE ScanDigits(s, i)
  IN  IF j <= Len(s) /\ s[j] \in Digits THEN PFail
      ELSE POk(JNum(DigitsVal(s, i, j - 1)), j)

RECURSIVE ScanString(_, _)
\* position of the closing quote at or after i, or 0 when the string never closes
ScanString(s, i) ==
  IF i > Len(s) THEN 0 ELSE IF s[i] = "\"" THEN i ELSE ScanString(s, i + 1)

\* a string whose opening quote is at i
ParseString(s, i) ==
  LET j == ScanString(s, i + 1)
  IN  IF j = 0 THEN PFail ELSE POk(JStr(SubSeq(s, i + 1, j - 1)), j + 1)

RECURSIVE ParseValue(_, _)
RECURSIVE ParseMembers(_, _, _)

\* the members of an object, the first key expected at i; m holds those read so far
ParseMembers(s, i, m) ==
  IF i > Len(s) \/ s[i] # "\"" THEN PFail
  ELSE
    LET k == ParseString(s, i)
    IN  IF ~k.ok THEN PFail
        ELSE
          LET c == SkipWs(s, k.p)
          IN  IF c > Len(s) \/ s[c] # ":" THEN PFail
              ELSE
                LET v == ParseValue(s, SkipWs(s, c + 1))
                IN  IF ~v.ok THEN PFail
                    ELSE
                      LET m2 == {p \in m : p[1] # k.v.s} \cup {<<k.v.s, v.v>>}
                          e  == SkipWs(s, v.p)
                      IN  IF e > Len(s) THEN PFail
                          ELSE IF s[e] = "}" THEN POk(JObj(m2), e + 1)
                          ELSE IF s[e] = "," THEN ParseMembers(s, SkipWs(s, e + 1), m2)
                          ELSE PFail

\* the value starting at i (whitespace already skipped)
ParseValue(s, i) ==
  IF i > Len(s) THEN PFail
  ELSE IF s[i] = "{" THEN
         LET j == SkipWs(s, i + 1)
         IN  IF j <= Len(s) /\ s[j] = "}" THEN POk(EmptyObject, j + 1)
             ELSE ParseMembers(s, j, {})
  ELSE IF s[i] = "\"" THEN ParseString(s, i)
  ELSE IF s[i] \in Digits THEN ParseNumber(s, i)
  ELSE PFail

\* serde_json::from_str::<Value>: one value, then only whitespace to the end
FromStr(s) ==
  LET v == ParseValue(s, SkipWs(s, 1))
  IN  IF v.ok /\ SkipWs(s, v.p) = Len(s) + 1 THEN [ok |-> TRUE, v |-> v.v]
      ELSE [ok |-> FALSE, v |-> EmptyObject]

\* serde_json::from_str(..).unwrap_or(Value::Object(Map::new()))
FromStrOrEmpty(s) == LET r == FromStr(s) IN IF r.ok THEN r.v ELSE EmptyObject

\* ------------------------------------------------------------------ lines of the response stream
\* One line of the response body as reader.lines() yields it.
\*   prefix   what the line starts with ("data: " marks a payload)
\*   body     "json" (a JSON object), "done" (the literal [DONE]) or "garbage" (neither)
\*   compact  the JSON text has no whitespace between tokens
\*   type, index, content_block, delta   the members of the JSON object, None when absent
\*   extra    the "type" of an object nested under a key no event struct declares
DataPrefix == "data: "
NoBlock == None
NoDelta == None

Block(type, id, name) == [type |-> type, id |-> id, name |-> name]
Delta(type, text, partial_json, stop_reason) ==
  [type |-> type, text |-> text, partial_json |-> partial_json, stop_reason |-> stop_reason]

Line(prefix, body, compact, type, index, content_block, delta, extra) ==
  [prefix |-> prefix, body |-> body, compact |-> compact, type |-> type, index |-> index,
   content_block |-> content_block, delta |-> delta, extra |-> extra]

Payload(type, index, content_block, delta) ==
  Line(DataPrefix, "json", TRUE, Some(type), index, content_block, delta, None)

\* the events the service sends
ToolUseStart(id, name) ==
  Payload("content_block_start", Some(1), Some(Block(Some("tool_use"), id, name)), NoDelta)
TextStart ==
  Payload("content_block_start", Some(0), Some(Block(Some("text"), None, None)), NoDelta)
TextDelta(frag) ==
  Payload("content_block_delta", Some(0), NoBlock,
          Some(Delta(Some("text_delta"), Some(frag), None, None)))
InputJsonDelta(frag) ==
  Payload("content_block_delta", Some(1), NoBlock,
          Some(Delta(Some("input_json_delta"), None, Some(frag), None)))
BlockStop == Payload("content_block_stop", Some(1), NoBlock, NoDelta)
MessageDelta(reason) ==
  Payload("message_delta", None, NoBlock, Some(Delta(None, None, None, reason)))
MessageStop == Payload("message_stop", None, NoBlock, NoDelta)
DoneLine == Line(DataPrefix, "done", TRUE, None, None, NoBlock, NoDelta, None)
EventNameLine == Line("event: ", "garbage", TRUE, None, None, NoBlock, NoDelta, None)
BlankLine == Line("", "garbage", TRUE, None, None, NoBlock, NoDelta, None)

\* line.strip_prefix("data: ")
StripPrefix(line) == IF line.prefix = DataPrefix THEN Some(line) ELSE None

\* serde_json::from_str::<StreamContentBlockStart>(data): type and index are required,
\* content_block is optional but, when present, needs its own type
ParseContentBlockStart(data) ==
  IF /\ data.body = "json"
     /\ IsSome(data.type)
     /\ IsSome(data.index)
     /\ (IsSome(data.content_block) => IsSome(Get(data.content_block).type))
  THEN Some([event_type |-> Get(data.type), content_block |-> data.content_block])
  ELSE None

\* serde_json::from_str::<StreamContentBlockDelta>(data): type and index are required,
\* delta is optional but, when present, needs its own type
ParseContentBlockDelta(data) ==
  IF /\ data.body = "json"
     /\ IsSome(data.type)
     /\ IsSome(data.index)
     /\ (IsSome(data.delta) => IsSome(Get(data.delta).type))
  THEN Some([event_type |-> Get(data.type), delta |-> data.delta])
  ELSE None

\* serde_json::from_str::<StreamMessageDelta>(data): only type is required
ParseMessageDelta(data) ==
  IF data.body = "json" /\ IsSome(data.type)
  THEN Some([event_type |-> Get(data.type), delta |-> data.delta])
  ELSE None

\* data.contains("\"type\":\"content_block_stop\""): a substring test on the raw text,
\* met by a "type" member at any depth of a compact payload, parsed or not
StopMarker == "content_block_stop"
ContainsStopMarker(data) ==
  /\ data.body # "done"
  /\ data.compact
  /\ \/ data.type = Some(StopMarker)
     \/ data.extra = Some(StopMarker)
     \/ IsSome(data.content_block) /\ Get(data.content_block).type = Some(StopMarker)
     \/ IsSome(data.delta) /\ Get(data.delta).type = Some(StopMarker)

\* ------------------------------------------------------------------ the aggregator
ToolCall(id, name, input) == [id |-> id, name |-> name, input |-> input]

\* the locals of send_messages_streaming as the loop starts; sink is the record
\* of the calls of on_text_chunk, each with the text accumulated when it was called
InitialState ==
  [full_text |-> <<>>, stop_reason |-> "unknown", tool_calls |-> <<>>,
   current_tool_id |-> None, current_tool_name |-> None, current_tool_json |-> <<>>,
   sink |-> <<>>]

\* the fragment goes in front of the accumulated text
PushText_Prepends(st, text) ==
  LET called == [st EXCEPT !.sink = Append(@, [chunk |-> text, seen |-> st.full_text])]
  IN  [called EXCEPT !.full_text = text \o @]

\* the fragment is appended before the sink is called
PushText_AppendsFirst(st, text) ==
  LET pushed == [st EXCEPT !.full_text = @ \o text]
  IN  [pushed EXCEPT !.sink = Append(@, [chunk |-> text, seen |-> pushed.full_text])]

\* on_text_chunk(&text); full_text.push_str(&text);
PushText(st, text) ==
  LET called == [st EXCEPT !.sink = Append(@, [chunk |-> text, seen |-> st.full_text])]
  IN  [called EXCEPT !.full_text = @ \o text]

\* a tool_use block-start that keeps the buffer of the call before it
OnContentBlockStart_KeepsBuffer(st, data) ==
  LET event == ParseContentBlockStart(data)
  IN  IF /\ IsSome(event)
         /\ Get(event).event_type = "content_block_start"
         /\ IsSome(Get(event).content_block)
         /\ Get(Get(event).content_block).type = Some("tool_use")
      THEN [st EXCEPT !.current_tool_id = Get(Get(event).content_block).id,
                      !.current_tool_name = Get(Get(event).content_block).name]
      ELSE st

\* a block-start of any kind opens a tool call
OnContentBlockStart_AnyKind(st, data) ==
  LET event == ParseContentBlockStart(data)
  IN  IF /\ IsSome(event)
         /\ Get(event).event_type = "content_block_start"
         /\ IsSome(Get(event).content_block)
      THEN [st EXCEPT !.current_tool_id = Get(Get(event).content_block).id,
                      !.current_tool_name = Get(Get(event).content_block).name,
                      !.current_tool_json = <<>>]
      ELSE st

\* a tool_use block-start that clears the buffer only when a call was open
OnContentBlockStart_ClearsOnlyWhenOpen(st, data) ==
  LET event == ParseContentBlockStart(data)
  IN  IF /\ IsSome(event)
         /\ Get(event).event_type = "content_block_start"
         /\ IsSome(Get(event).content_block)
         /\ Get(Get(event).content_block).type = Some("tool_use")
      THEN [st EXCEPT !.current_tool_id = Get(Get(event).content_block).id,
                      !.current_tool_name = Get(Get(event).content_block).name,
                      !.current_tool_json = IF IsSome(st.current_tool_id) THEN <<>> ELSE @]
      ELSE st

\* a tool_use block-start that is ignored while a call is open
OnContentBlockStart_KeepsFirst(st, data) ==
  LET event == ParseContentBlockStart(data)
  IN  IF /\ IsSome(event)
         /\ Get(event).event_type = "content_block_start"
         /\ IsSome(Get(event).content_block)
         /\ Get(Get(event).content_block).type = Some("tool_use")
         /\ ~IsSome(st.current_tool_id)
      THEN [st EXCEPT !.current_tool_id = Get(Get(event).content_block).id,
                      !.current_tool_name = Get(Get(event).content_block).name,
                      !.current_tool_json = <<>>]
      ELSE st

\* content_block_start - might be text or tool_use
OnContentBlockStart(st, data) ==
  LET event == ParseContentBlockStart(data)
  IN  IF /\ IsSome(event)
         /\ Get(event).event_type = "content_block_start"
         /\ IsSome(Get(event).content_block)
         /\ Get(Get(event).content_block).type = Some("tool_use")
      THEN [st EXCEPT !.current_tool_id = Get(Get(event).content_block).id,
                      !.current_tool_name = Get(Get(event).content_block).name,
                      !.current_tool_json = <<>>]
      ELSE st

\* content_block_delta - text or tool input JSON
OnContentBlockDelta(st, data) ==
  LET event == ParseContentBlockDelta(data)
  IN  IF /\ IsSome(event)
         /\ Get(event).event_type = "content_block_delta"
         /\ IsSome(Get(event).delta)
      THEN LET delta == Get(Get(event).delta)
               st1 == IF IsSome(delta.text) THEN PushText(st, Get(delta.text)) ELSE st
           IN  IF IsSome(delta.partial_json)
               THEN [st1 EXCEPT !.current_tool_json = @ \o Get(delta.partial_json)]
               ELSE st1
      ELSE st

\* a block closing on a malformed buffer pushes nothing
FinalizeTool_SkipsMalformed(st, id, name) ==
  IF FromStr(st.current_tool_json).ok
  THEN [st EXCEPT !.tool_calls = Append(@, ToolCall(id, name, FromStr(st.current_tool_json).v)),
                  !.current_tool_json = <<>>]
  ELSE [st EXCEPT !.current_tool_json = <<>>]

\* a block closing drops the calls finalized before it
FinalizeTool_ReplacesLast(st, id, name) ==
  [st EXCEPT !.tool_calls = <<ToolCall(id, name, FromStrOrEmpty(st.current_tool_json))>>,
             !.current_tool_json = <<>>]

\* the ToolCall pushed when a block closes
FinalizeTool(st, id, name) ==
  [st EXCEPT !.tool_calls = Append(@, ToolCall(id, name, FromStrOrEmpty(st.current_tool_json))),
             !.current_tool_json = <<>>]

\* a block-stop that reads id and name without taking them
OnContentBlockStop_KeepsOpen(st, data) ==
  IF ContainsStopMarker(data) /\ IsSome(st.current_tool_id) /\ IsSome(st.current_tool_name)
  THEN [st EXCEPT !.tool_calls =
                     Append(@, ToolCall(Get(st.current_tool_id), Get(st.current_tool_name),
                                        FromStrOrEmpty(st.current_tool_json))),
                  !.current_tool_json = <<>>]
  ELSE st

\* a block-stop that takes id and name only when both are there
OnContentBlockStop_TakesOnlyWhenBoth(st, data) ==
  IF ContainsStopMarker(data) /\ IsSome(st.current_tool_id) /\ IsSome(st.current_tool_name)
  THEN LET taken == [st EXCEPT !.current_tool_id = None, !.current_tool_name = None]
       IN  [taken EXCEPT !.tool_calls =
                            Append(@, ToolCall(Get(st.current_tool_id), Get(st.current_tool_name),
                                               FromStrOrEmpty(st.current_tool_json))),
                         !.current_tool_json = <<>>]
  ELSE st

\* content_block_stop - finalize tool if we were building one; both take() run
OnContentBlockStop(st, data) ==
  IF ContainsStopMarker(data)
  THEN LET taken == [st EXCEPT !.current_tool_id = None, !.current_tool_name = None]
       IN  IF IsSome(st.current_tool_id) /\ IsSome(st.current_tool_name)
           THEN FinalizeTool(taken, Get(st.current_tool_id), Get(st.current_tool_name))
           ELSE taken
  ELSE st

\* a message_delta without a reason resets stop_reason
OnMessageDelta_ResetsOnMissing(st, data) ==
  LET event == ParseMessageDelta(data)
  IN  IF IsSome(event) /\ Get(event).event_type = "message_delta"
      THEN IF IsSome(Get(event).delta) /\ IsSome(Get(Get(event).delta).stop_reason)
           THEN [st EXCEPT !.stop_reason = Get(Get(Get(event).delta).stop_reason)]
           ELSE [st EXCEPT !.stop_reason = "unknown"]
      ELSE st

\* message_delta - stop_reason
OnMessageDelta(st, data) ==
  LET event == ParseMessageDelta(data)
  IN  IF /\ IsSome(event)
         /\ Get(event).event_type = "message_delta"
         /\ IsSome(Get(event).delta)
         /\ IsSome(Get(Get(event).delta).stop_reason)
      THEN [st EXCEPT !.stop_reason = Get(Get(Get(event).delta).stop_reason)]
      ELSE st

\* the body of `for line in reader.lines()` for a line that was read
ProcessLine(st, line) ==
  LET data == StripPrefix(line)
  IN  IF ~IsSome(data) THEN st
      ELSE IF Get(data).body = "done" THEN st
      ELSE OnMessageDelta(
             OnContentBlockStop(
               OnContentBlockDelta(
                 OnContentBlockStart(st, Get(data)), Get(data)), Get(data)), Get(data))

\* Result<ChatResponse, String>
Ok(st) ==
  [ok |-> TRUE, text |-> st.full_text, stop_reason |-> st.stop_reason,
   tool_calls |-> st.tool_calls, err |-> ""]
Err(e) == [ok |-> FALSE, text |-> <<>>, stop_reason |-> "", tool_calls |-> <<>>, err |-> e]

\* .send().map_err(|e| format!("HTTP request failed: {}", e))?
OnSendError == Err("HTTP request failed")
\* return Err(format!("API error {}: {}", status, body))
OnErrorStatus == Err("API error")
\* a failed read returns what was accumulated
OnReadError_ReturnsPartial(st) == Ok(st)

\* line.map_err(|e| format!("Read error: {}", e))?
OnReadError(st) == Err("Read error")
\* the end of the stream finalizes a call that is still open
OnEndOfStream_FlushesOpen(st) ==
  IF IsSome(st.current_tool_id) /\ IsSome(st.current_tool_name)
  THEN Ok([st EXCEPT !.tool_calls =
                        Append(@, ToolCall(Get(st.current_tool_id), Get(st.current_tool_name),
                                           FromStrOrEmpty(st.current_tool_json)))])
  ELSE Ok(st)

\* Ok(ChatResponse { text: full_text, stop_reason, tool_calls })
OnEndOfStream(st) == Ok(st)

\* ------------------------------------------------------------------ what the transport may deliver
\* {"a":1 and } , the two halves of {"a":1}
JsonHead == <<"{", "\"", "a", "\"", ":", "1">>
JsonTail == <<"}">>

\* a content_block_stop payload printed with a space after the colon
SpacedBlockStop == [BlockStop EXCEPT !.compact = FALSE]
\* a tool_use block-start that also carries {"type":"content_block_stop"} under an unknown key
StartWithStopMarker ==
  [ToolUseStart(Some("t2"), Some("echo")) EXCEPT !.extra = Some(StopMarker)]
\* a delta carrying both a text and a partial_json member
TextAndJsonDelta ==
  Payload("content_block_delta", Some(0), NoBlock,
          Some(Delta(Some("text_delta"), Some(<<"A">>), Some(JsonTail), None)))

TextFeed ==
  {TextStart, TextDelta(<<"A">>), TextDelta(<<"B">>), TextDelta(<<"A", "B">>),
   TextDelta(<<"C">>), BlockStop}
ToolFeed ==
  {ToolUseStart(Some("t1"), Some("get_current_time")), ToolUseStart(Some("t2"), Some("echo")),
   InputJsonDelta(JsonHead), InputJsonDelta(JsonTail), BlockStop, TextDelta(<<"A">>)}
StopFeed ==
  {MessageDelta(Some("end_turn")), MessageDelta(Some("tool_use")), MessageDelta(None),
   MessageStop, TextDelta(<<"A">>), DoneLine}
OddFeed ==
  {ToolUseStart(None, Some("echo")), ToolUseStart(Some("t1"), None), BlockStop,
   SpacedBlockStop, StartWithStopMarker, TextAndJsonDelta}
\* a text delta on a line that starts with "data:" and no space
UnprefixedTextDelta == [TextDelta(<<"B">>) EXCEPT !.prefix = "data:"]
\* a payload that is not JSON
GarbagePayload == Line(DataPrefix, "garbage", TRUE, None, None, NoBlock, NoDelta, None)
\* a content_block_delta payload without its index
TextDeltaWithoutIndex ==
  Payload("content_block_delta", None, NoBlock,
          Some(Delta(Some("text_delta"), Some(<<"B">>), None, None)))
IgnoredFeed ==
  {UnprefixedTextDelta, BlankLine, GarbagePayload, TextDeltaWithoutIndex, TextStart,
   TextAndJsonDelta}
\* each run of the call is fed from one of these sets of lines
Feeds == {TextFeed, ToolFeed, StopFeed, OddFeed, IgnoredFeed}

\* ------------------------------------------------------------------ one call of send_messages_streaming
VARIABLES
  pc,                 \* "send", "reading" or "returned"
  feed,               \* the lines the transport may deliver during this call
  events,             \* the lines read so far, in arrival order
  io,                 \* how the transport ended: "open", "send_error", "error_status", "read_error", "eof"
  full_text, stop_reason, tool_calls,
  current_tool_id, current_tool_name, current_tool_json,
  sink,               \* the calls of on_text_chunk so far
  result              \* None until the call returns, then Some(Result<ChatResponse, String>)

\* run_repl
VARIABLES
  repl_pc,            \* "prompt" while the loop runs, "exited" after the break
  history,            \* run_repl's history
  prompts,            \* how many times read_input was called
  turn                \* None, or Some(what the last completed turn did)

\* ToolRegistry
VARIABLES
  tools,              \* ToolRegistry.tools: name -> executor
  registered,         \* the executors passed to register, in call order
  call,               \* None, or Some(the last call of ToolRegistry::execute)
  defs                \* None, or Some(the last call of ToolRegistry::definitions)

streamVars ==
  <<pc, feed, events, io, full_text, stop_reason, tool_calls,
    current_tool_id, current_tool_name, current_tool_json, sink, result>>
replVars == <<repl_pc, history, prompts, turn>>
registryVars == <<tools, registered, call, defs>>
vars == <<streamVars, replVars, registryVars>>

\* the locals as one value
Locals ==
  [full_text |-> full_text, stop_reason |-> stop_reason, tool_calls |-> tool_calls,
   current_tool_id |-> current_tool_id, current_tool_name |-> current_tool_name,
   current_tool_json |-> current_tool_json, sink |-> sink]

SetLocals(st) ==
  /\ full_text' = st.full_text
  /\ stop_reason' = st.stop_reason
  /\ tool_calls' = st.tool_calls
  /\ current_tool_id' = st.current_tool_id
  /\ current_tool_name' = st.current_tool_name
  /\ current_tool_json' = st.current_tool_json
  /\ sink' = st.sink

LocalsUnchanged ==
  UNCHANGED <<full_text, stop_reason, tool_calls, current_tool_id, current_tool_name,
              current_tool_json, sink>>

\* the call has not sent its request yet
StreamInit ==
  /\ pc = "send"
  /\ events = <<>>
  /\ io = "open"
  /\ full_text = InitialState.full_text
  /\ stop_reason = InitialState.stop_reason
  /\ tool_calls = InitialState.tool_calls
  /\ current_tool_id = InitialState.current_tool_id
  /\ current_tool_name = InitialState.current_tool_name
  /\ current_tool_json = InitialState.current_tool_json
  /\ sink = InitialState.sink
  /\ result = None

\* let mut history: Vec<Message> = Vec::new();
ReplInit ==
  /\ repl_pc = "prompt"
  /\ history = <<>>
  /\ prompts = 0
  /\ turn = None

\* ToolRegistry::new()
RegistryInit ==
  /\ tools = <<>>
  /\ registered = <<>>
  /\ call = None
  /\ defs = None

Init ==
  /\ StreamInit
  /\ feed \in Feeds
  /\ ReplInit
  /\ RegistryInit

\* client.post(..).send() fails
SendFails ==
  /\ pc = "send"
  /\ pc' = "returned"
  /\ io' = "send_error"
  /\ result' = Some(OnSendError)
  /\ UNCHANGED <<feed, events>>
  /\ LocalsUnchanged
  /\ UNCHANGED <<replVars, registryVars>>

\* the response status is not a success
ErrorStatus ==
  /\ pc = "send"
  /\ pc' = "returned"
  /\ io' = "error_status"
  /\ result' = Some(OnErrorStatus)
  /\ UNCHANGED <<feed, events>>
  /\ LocalsUnchanged
  /\ UNCHANGED <<replVars, registryVars>>

\* the response is a success: the loop over reader.lines() starts
OpenStream ==
  /\ pc = "send"
  /\ pc' = "reading"
  /\ UNCHANGED <<feed, events, io, result>>
  /\ LocalsUnchanged
  /\ UNCHANGED <<replVars, registryVars>>

\* reader.lines() yields Ok(line)
ReadLine ==
  /\ pc = "reading"
  /\ Len(events) < MaxLines
  /\ \E line \in feed :
       /\ events' = Append(events, line)
       /\ SetLocals(ProcessLine(Locals, line))
  /\ UNCHANGED <<pc, feed, io, result>>
  /\ UNCHANGED <<replVars, registryVars>>

\* reader.lines() yields Err(e)
ReadError ==
  /\ pc = "reading"
  /\ pc' = "returned"
  /\ io' = "read_error"
  /\ result' = Some(OnReadError(Locals))
  /\ UNCHANGED <<feed, events>>
  /\ LocalsUnchanged
  /\ UNCHANGED <<replVars, registryVars>>

\* reader.lines() is exhausted
EndOfStream ==
  /\ pc = "reading"
  /\ pc' = "returned"
  /\ io' = "eof"
  /\ result' = Some(OnEndOfStream(Locals))
  /\ UNCHANGED <<feed, events>>
  /\ LocalsUnchanged
  /\ UNCHANGED <<replVars, registryVars>>

Next == SendFails \/ ErrorStatus \/ OpenStream \/ ReadLine \/ ReadError \/ EndOfStream

Spec == Init /\ [][Next]_vars

\* ------------------------------------------------------------------ the events of a stream, by wire shape
IsPayload(l) == l.prefix = DataPrefix /\ l.body = "json"

\* content_block_start{type, index, content_block:{type: tool_use, id?, name?}}
IsToolUseStart(l) ==
  /\ IsPayload(l)
  /\ l.type = Some("content_block_start")
  /\ IsSome(l.index)
  /\ IsSome(l.content_block)
  /\ Get(l.content_block).type = Some("tool_use")

\* a tool_use block-start carrying both its id and its name
IsNamedToolUseStart(l) ==
  /\ IsToolUseStart(l)
  /\ IsSome(Get(l.content_block).id)
  /\ IsSome(Get(l.content_block).name)

\* content_block_delta{type, index, delta:{type, ..}}
IsBlockDelta(l) ==
  /\ IsPayload(l)
  /\ l.type = Some("content_block_delta")
  /\ IsSome(l.index)
  /\ IsSome(l.delta)
  /\ IsSome(Get(l.delta).type)

\* the text fragment a line carries, <<>> when it carries none
TextOf(l) ==
  IF IsBlockDelta(l) /\ IsSome(Get(l.delta).text) THEN Get(Get(l.delta).text) ELSE <<>>
CarriesText(l) == IsBlockDelta(l) /\ IsSome(Get(l.delta).text)

\* the partial-JSON fragment a line carries, <<>> when it carries none
PartialJsonOf(l) ==
  IF IsBlockDelta(l) /\ IsSome(Get(l.delta).partial_json)
  THEN Get(Get(l.delta).partial_json) ELSE <<>>

\* a payload whose text shows "type":"content_block_stop" without whitespace
IsBlockStop(l) ==
  /\ l.prefix = DataPrefix
  /\ l.body # "done"
  /\ l.compact
  /\ StopMarker \in
       {Get(o) : o \in {x \in {l.type, l.extra,
                               IF IsSome(l.content_block) THEN Get(l.content_block).type ELSE None,
                               IF IsSome(l.delta) THEN Get(l.delta).type ELSE None} : IsSome(x)}}

\* message_delta{type, delta:{stop_reason}} with a reason
IsMessageDeltaWithReason(l) ==
  /\ IsPayload(l)
  /\ l.type = Some("message_delta")
  /\ IsSome(l.delta)
  /\ IsSome(Get(l.delta).stop_reason)

Positions(evs) == [i \in 1..Len(evs) |-> i]

\* the first block-stop at or after position i, 0 when there is none
RECURSIVE StopAfter(_, _)
StopAfter(evs, i) ==
  IF i > Len(evs) THEN 0 ELSE IF IsBlockStop(evs[i]) THEN i ELSE StopAfter(evs, i + 1)

\* the tool_use block-start at i carries id and name and is closed by a block-stop
\* before any later tool_use block-start
IsClosedStart(evs, i) ==
  /\ IsNamedToolUseStart(evs[i])
  /\ StopAfter(evs, i) # 0
  /\ \A k \in (i + 1)..StopAfter(evs, i) : ~IsToolUseStart(evs[k])

\* positions of the closed tool_use block-starts, ascending
ClosedStarts(evs) == SelectSeq(Positions(evs), LAMBDA i : IsClosedStart(evs, i))
\* positions of all tool_use block-starts, ascending
ToolUseStarts(evs) == SelectSeq(Positions(evs), LAMBDA i : IsToolUseStart(evs[i]))

RECURSIVE ConcatTexts(_)
ConcatTexts(evs) == IF evs = <<>> THEN <<>> ELSE TextOf(Head(evs)) \o ConcatTexts(Tail(evs))

RECURSIVE ConcatPartialJson(_, _, _)
\* the partial-JSON fragments of lines i..j, in arrival order
ConcatPartialJson(evs, i, j) ==
  IF i > j THEN <<>> ELSE PartialJsonOf(evs[i]) \o ConcatPartialJson(evs, i + 1, j)

\* the fragments handed over by the text-carrying lines, in arrival order
Fragments(evs) ==
  LET carrying == SelectSeq(evs, CarriesText)
  IN  [k \in 1..Len(carrying) |-> TextOf(carrying[k])]

RECURSIVE Flatten(_)
Flatten(ss) == IF ss = <<>> THEN <<>> ELSE Head(ss) \o Flatten(Tail(ss))

\* the reason of the last message_delta that carried one, "unknown" when none did
RECURSIVE LastReason(_)
LastReason(evs) ==
  IF evs = <<>> THEN "unknown"
  ELSE IF IsMessageDeltaWithReason(evs[Len(evs)]) THEN Get(Get(evs[Len(evs)].delta).stop_reason)
  ELSE LastReason(SubSeq(evs, 1, Len(evs) - 1))

Returned == pc = "returned" /\ IsSome(result)
ReturnedResponse == Returned /\ Get(result).ok

\* ------------------------------------------------------------------ C1
\* C1 as stated: when the stream was read to its end, the response holds as many
\* ToolCalls as the stream holds tool_use block-starts, in the order of those
\* block-starts.
C1_CountEqualsAllStarts ==
  (ReturnedResponse /\ io = "eof") =>
    LET starts == ToolUseStarts(events)
        calls == Get(result).tool_calls
    IN  /\ Len(calls) = Len(starts)
        /\ \A k \in 1..Len(calls) :
             /\ Some(calls[k].id) = Get(events[starts[k]].content_block).id
             /\ Some(calls[k].name) = Get(events[starts[k]].content_block).name

\* C1 amended: at every point of the stream, and in the response returned at its
\* end, the ToolCalls are, one for one and in order, the tool_use block-starts that
\* carry id and name and are closed by a block-stop before any later tool_use
\* block-start, whatever else is interleaved.
C1_CountEqualsClosedStarts ==
  LET starts == ClosedStarts(events)
  IN  /\ Len(tool_calls) = Len(starts)
      /\ \A k \in 1..Len(starts) :
           /\ Some(tool_calls[k].id) = Get(events[starts[k]].content_block).id
           /\ Some(tool_calls[k].name) = Get(events[starts[k]].content_block).name
      /\ (ReturnedResponse /\ io = "eof") => Get(result).tool_calls = tool_calls

\* two tool calls were returned with a text fragment between their block-starts
C1_Witness ==
  /\ ReturnedResponse
  /\ io = "eof"
  /\ Len(Get(result).tool_calls) = 2
  /\ Get(result).tool_calls[1].id = "t1"
  /\ Get(result).tool_calls[2].id = "t2"
  /\ \E i, j, k \in 1..Len(events) :
       /\ i < j /\ j < k
       /\ IsToolUseStart(events[i]) /\ CarriesText(events[j]) /\ IsToolUseStart(events[k])

\* ------------------------------------------------------------------ C2
\* C2: the accumulated text is, at every point, the concatenation in arrival order
\* of the text fragments read so far, and the text of the response returned at the
\* end of the stream is the concatenation of all of them, however the text was split.
C2_ChunkBoundaryInvariance ==
  /\ full_text = ConcatTexts(events)
  /\ (ReturnedResponse /\ io = "eof") => Get(result).text = ConcatTexts(events)

\* "ABC" was returned from the fragments "AB" and "C" with another event between them
C2_Witness ==
  /\ ReturnedResponse
  /\ Get(result).text = <<"A", "B", "C">>
  /\ \E i, j, k \in 1..Len(events) :
       /\ i < j /\ j < k
       /\ events[i] = TextDelta(<<"A", "B">>)
       /\ ~CarriesText(events[j])
       /\ events[k] = TextDelta(<<"C">>)

\* ------------------------------------------------------------------ C5
\* C5: on_text_chunk was called exactly once per text fragment read, in arrival
\* order; each call saw the text accumulated from the fragments before its own and
\* not yet its own; and full_text is the concatenation of the fragments handed to
\* the sink so far.
C5_SinkOrdering ==
  LET chunks == [k \in 1..Len(sink) |-> sink[k].chunk]
  IN  /\ chunks = Fragments(events)
      /\ \A k \in 1..Len(sink) : sink[k].seen = Flatten(SubSeq(chunks, 1, k - 1))
      /\ full_text = Flatten(chunks)

\* three fragments went through the sink, the last one after "AB" had been appended
C5_Witness ==
  /\ Len(sink) = 3
  /\ sink[3].chunk = <<"C">>
  /\ sink[3].seen = <<"A", "B">>
  /\ full_text = <<"A", "B", "C">>

\* ------------------------------------------------------------------ C6
\* C6: when reading a line failed, the call returned an error and nothing of what
\* had been accumulated.
C6_NoPartialResponse ==
  io = "read_error" =>
    /\ Returned
    /\ ~Get(result).ok
    /\ Get(result).err = "Read error"
    /\ Get(result).text = <<>>
    /\ Get(result).tool_calls = <<>>

\* the read failed after text and a tool call had been accumulated
C6_Witness ==
  /\ io = "read_error"
  /\ Returned
  /\ full_text # <<>>
  /\ tool_calls # <<>>

\* ------------------------------------------------------------------ C7
\* a line that is a block-stop and nothing else
IsPlainBlockStop(l) == IsBlockStop(l) /\ ~IsToolUseStart(l) /\ ~IsBlockDelta(l)

\* C7: when a block-stop is read while a tool call with id and name is open and its
\* buffer is not valid JSON (the empty buffer included), exactly one ToolCall with
\* that id, that name and an empty-object input is appended, the call does not
\* return, and a response returned at the end of the stream is never an error.
C7_MalformedDegrades ==
  [][ /\ (/\ pc = "reading"
          /\ Len(events') = Len(events) + 1
          /\ IsPlainBlockStop(events'[Len(events')])
          /\ IsSome(current_tool_id)
          /\ IsSome(current_tool_name)
          /\ ~FromStr(current_tool_json).ok)
         => /\ tool_calls' =
                 Append(tool_calls,
                        ToolCall(Get(current_tool_id), Get(current_tool_name), EmptyObject))
            /\ pc' = "reading"
            /\ result' = None
      /\ (io' = "eof" => Get(result').ok)
    ]_vars

\* a call whose buffer was {"a":1 at its block-stop was returned with an empty-object
\* input, and a text fragment read after it was still accumulated
C7_Witness ==
  /\ ReturnedResponse
  /\ io = "eof"
  /\ \E j \in 3..Len(events) :
       /\ events[j - 2] = ToolUseStart(Some("t1"), Some("get_current_time"))
       /\ events[j - 1] = InputJsonDelta(JsonHead)
       /\ events[j] = BlockStop
       /\ j < Len(events)
       /\ CarriesText(events[j + 1])
  /\ Get(result).tool_calls[1] = ToolCall("t1", "get_current_time", EmptyObject)
  /\ Get(result).text # <<>>

\* ------------------------------------------------------------------ C8
\* C8: the input of the k-th ToolCall is the parse of the concatenation, in arrival
\* order, of the partial-JSON fragments read after the k-th closed tool_use
\* block-start up to its block-stop, whenever that concatenation is valid JSON.
C8_PartialJsonReassembly ==
  LET starts == ClosedStarts(events)
  IN  /\ Len(tool_calls) = Len(starts)
      /\ \A k \in 1..Len(starts) :
           LET text == ConcatPartialJson(events, starts[k] + 1, StopAfter(events, starts[k]))
           IN  FromStr(text).ok => tool_calls[k].input = FromStr(text).v

\* the fragments {"a":1 and } finalized to the object {"a":1}
C8_Witness ==
  /\ Len(events) >= 4
  /\ IsNamedToolUseStart(events[1])
  /\ events[2] = InputJsonDelta(JsonHead)
  /\ events[3] = InputJsonDelta(JsonTail)
  /\ events[4] = BlockStop
  /\ tool_calls[1].input = JObj({<< <<"a">>, JNum(1) >>})

\* ------------------------------------------------------------------ C9
\* C9: stop_reason is "unknown" until a message_delta with a reason is read, and
\* from then on the reason of the last such message_delta; the response returned at
\* the end of the stream carries it.
C9_StopReason ==
  /\ stop_reason = LastReason(events)
  /\ (ReturnedResponse /\ io = "eof") => Get(result).stop_reason = LastReason(events)

\* "tool_use" overwrote "end_turn" and survived a later message_delta without a reason
C9_Witness ==
  /\ ReturnedResponse
  /\ Get(result).stop_reason = "tool_use"
  /\ \E i, j, k \in 1..Len(events) :
       /\ i < j /\ j < k
       /\ events[i] = MessageDelta(Some("end_turn"))
       /\ events[j] = MessageDelta(Some("tool_use"))
       /\ events[k] = MessageDelta(None)

\* ------------------------------------------------------------------ messages
\* ContentBlock::ToolUse / ContentBlock::ToolResult
ToolUseBlock(id, name, input) ==
  [type |-> "tool_use", id |-> id, name |-> name, input |-> input,
   tool_use_id |-> "", content |-> <<>>]
ToolResultBlock(tool_use_id, content) ==
  [type |-> "tool_result", id |-> "", name |-> "", input |-> EmptyObject,
   tool_use_id |-> tool_use_id, content |-> content]

\* MessageContent::Text / MessageContent::Blocks
TextContent(text) == [kind |-> "text", text |-> text, blocks |-> <<>>]
BlocksContent(blocks) == [kind |-> "blocks", text |-> <<>>, blocks |-> blocks]

\* Message::user, Message::assistant, Message::assistant_tool_use, Message::tool_results
UserMessage(text) == [role |-> "user", content |-> TextContent(text)]
AssistantMessage(text) == [role |-> "assistant", content |-> TextContent(text)]
AssistantToolUse(calls) ==
  [role |-> "assistant",
   content |-> BlocksContent([k \in 1..Len(calls) |->
                                ToolUseBlock(calls[k].id, calls[k].name, calls[k].input)])]
ToolResults(results) ==
  [role |-> "user",
   content |-> BlocksContent([k \in 1..Len(results) |->
                                ToolResultBlock(results[k][1], results[k][2])])]

\* ------------------------------------------------------------------ the whole call over a scripted transport
\* A transport: how the send ends, the lines the body yields, and whether the body
\* then fails instead of ending.
Transport(send, lines, read_error) == [send |-> send, lines |-> lines, read_error |-> read_error]

RECURSIVE Aggregate(_, _)
\* the loop over the lines that were read
Aggregate(st, lines) ==
  IF lines = <<>> THEN st ELSE Aggregate(ProcessLine(st, Head(lines)), Tail(lines))

\* send_messages_streaming, from the request to the returned Result
SendMessagesStreaming(transport) ==
  IF transport.send = "send_error" THEN OnSendError
  ELSE IF transport.send = "error_status" THEN OnErrorStatus
  ELSE LET st == Aggregate(InitialState, transport.lines)
       IN  IF transport.read_error THEN OnReadError(st) ELSE OnEndOfStream(st)

\* the service asks for get_current_time with id t1
ToolRound ==
  Transport("ok", <<ToolUseStart(Some("t1"), Some("get_current_time")), BlockStop,
                    MessageDelta(Some("tool_use"))>>, FALSE)
\* the service answers in text only
TextRound ==
  Transport("ok", <<TextStart, TextDelta(<<"A">>), TextDelta(<<"B">>), BlockStop,
                    MessageDelta(Some("end_turn"))>>, FALSE)
\* the service says something and asks for a tool
TextAndToolRound ==
  Transport("ok", <<TextDelta(<<"C">>), ToolUseStart(Some("t2"), Some("echo")),
                    InputJsonDelta(JsonHead), InputJsonDelta(JsonTail), BlockStop,
                    MessageDelta(Some("tool_use"))>>, FALSE)
\* the body breaks after some text
BrokenRound == Transport("ok", <<TextDelta(<<"A">>)>>, TRUE)
RefusedRound == Transport("send_error", <<>>, FALSE)
RejectedRound == Transport("error_status", <<>>, FALSE)

\* A service: the transport it answers the r-th request of a turn with; the last
\* one answers every later request.
Services ==
  {<<TextRound>>, <<ToolRound, TextRound>>, <<ToolRound>>, <<TextAndToolRound, TextRound>>,
   <<BrokenRound>>, <<RefusedRound>>, <<RejectedRound>>}
Answer(service, r) == service[IF r < Len(service) THEN r ELSE Len(service)]

\* ------------------------------------------------------------------ the tool registry
\* Result<String, String> of an execution
ExecOk(out) == [ok |-> TRUE, out |-> out]
ExecErr(msg) == [ok |-> FALSE, out |-> msg]

\* implementations of ToolExecutor: the repository's GetTimeTool and three stand-ins
GetTimeTool == "GetTimeTool"
EchoTool == "EchoTool"
FailingTool == "FailingTool"
BrokenClockTool == "BrokenClockTool"
Executors == {GetTimeTool, EchoTool, FailingTool, BrokenClockTool}

\* ToolExecutor::name
ExecutorName(e) ==
  CASE e = GetTimeTool -> "get_current_time"
    [] e = BrokenClockTool -> "get_current_time"
    [] e = EchoTool -> "echo"
    [] e = FailingTool -> "fail"

\* what SystemTime::now() may read, in seconds from the epoch
Clock == {-1, 1762000000}

\* ToolExecutor::execute; now is the clock as the call reads it
ExecutorExecute(e, input, now) ==
  CASE e = GetTimeTool ->
         IF now < 0 THEN ExecErr(<<"second time provided was later than self">>)
         ELSE ExecOk(<<"Current Unix timestamp: ", ToString(now), " seconds since epoch">>)
    [] e = BrokenClockTool -> ExecErr(<<"clock unavailable">>)
    [] e = EchoTool -> ExecOk(<<"echo", ToString(Cardinality(input.m))>>)
    [] e = FailingTool -> ExecErr(<<"boom">>)

\* ToolExecutor::definition, as the name the Tool carries
ExecutorDefinition(e) == [name |-> ExecutorName(e)]

\* ToolRegistry::register that keeps the entry a name already has
RegistryRegister_KeepsFirst(map, e) ==
  [n \in DOMAIN map \cup {ExecutorName(e)} |-> IF n \in DOMAIN map THEN map[n] ELSE e]

\* ToolRegistry::register
RegistryRegister(map, e) ==
  [n \in DOMAIN map \cup {ExecutorName(e)} |-> IF n = ExecutorName(e) THEN e ELSE map[n]]

\* the orders a HashMap may iterate its keys in
KeyOrders(map) ==
  {o \in [1..Cardinality(DOMAIN map) -> DOMAIN map] :
     \A i, j \in 1..Cardinality(DOMAIN map) : i # j => o[i] # o[j]}

\* ToolRegistry::definitions: self.tools.values().map(|t| t.definition()).collect(),
\* one Vec for each order the map may iterate in
RegistryDefinitionsVec(map) ==
  {[k \in 1..Cardinality(DOMAIN map) |-> ExecutorDefinition(map[o[k]])] : o \in KeyOrders(map)}

\* ToolRegistry::definitions, as the set the Vec holds (its order is the map's)
RegistryDefinitions(map) == {ExecutorDefinition(map[n]) : n \in DOMAIN map}

\* the executor's failure is turned into a success
RegistryExecute_SwallowsFailure(map, name, input, now) ==
  IF name \in DOMAIN map
  THEN LET r == ExecutorExecute(map[name], input, now)
       IN  [ret |-> ExecOk(r.out),
            invoked |-> <<[executor |-> map[name], input |-> input, ret |-> r]>>]
  ELSE [ret |-> ExecErr(<<"Unknown tool: ", name>>), invoked |-> <<>>]

\* ToolRegistry::execute: what it returns, and the executor calls it made
RegistryExecute(map, name, input, now) ==
  IF name \in DOMAIN map
  THEN LET r == ExecutorExecute(map[name], input, now)
       IN  [ret |-> r, invoked |-> <<[executor |-> map[name], input |-> input, ret |-> r]>>]
  ELSE [ret |-> ExecErr(<<"Unknown tool: ", name>>), invoked |-> <<>>]

\* ------------------------------------------------------------------ the REPL driver
\* what the user may type at the prompt; ReadFailure is a failed read of stdin
ReadFailure == "<stdin error>"
RawInputs == {"", "  ", "hi", " what time is it? ", "quit", "EXIT", "Q", ReadFailure}

\* str::trim
Trim(raw) ==
  CASE raw = "  " -> "" [] raw = " what time is it? " -> "what time is it?" [] OTHER -> raw
\* str::to_lowercase
ToLowercase(x) == CASE x = "EXIT" -> "exit" [] x = "Q" -> "q" [] OTHER -> x

\* read_input
ReadInput(raw) ==
  IF raw = ReadFailure THEN None
  ELSE IF Trim(raw) = "" THEN None ELSE Some(Trim(raw))

\* should_exit
ShouldExit(input) == ToLowercase(input) \in {"quit", "exit", "q"}

\* the registry main() builds: ToolRegistry::new() and register(GetTimeTool::new())
MainRegistry == RegistryRegister(<<>>, GetTimeTool)

\* eval_streaming: the String it returns, with the requests it sent, the Results it
\* got back and the registry executions it made
EvalStreaming(messages, registry, service) ==
  LET request == [messages |-> messages, tools |-> RegistryDefinitions(registry)]
      res == SendMessagesStreaming(Answer(service, 1))
  IN  [response |-> IF res.ok THEN res.text ELSE <<"Error: ", res.err>>,
       requests |-> <<request>>,
       results |-> <<res>>,
       executed |-> <<>>]

ReplIdle == UNCHANGED <<streamVars, registryVars>>

\* read_input returns None: continue
ReplSkip ==
  /\ repl_pc = "prompt"
  /\ prompts < MaxPrompts
  /\ \E raw \in RawInputs : ReadInput(raw) = None
  /\ prompts' = prompts + 1
  /\ UNCHANGED <<repl_pc, history, turn>>
  /\ ReplIdle

\* should_exit(&input): break
ReplExit ==
  /\ repl_pc = "prompt"
  /\ prompts < MaxPrompts
  /\ \E raw \in RawInputs : IsSome(ReadInput(raw)) /\ ShouldExit(Get(ReadInput(raw)))
  /\ prompts' = prompts + 1
  /\ repl_pc' = "exited"
  /\ UNCHANGED <<history, turn>>
  /\ ReplIdle

\* a turn that starts the history over with its own two messages
ReplTurn_KeepsLastTurnOnly ==
  /\ repl_pc = "prompt"
  /\ prompts < MaxPrompts
  /\ \E raw \in RawInputs, service \in Services :
       /\ IsSome(ReadInput(raw))
       /\ ~ShouldExit(Get(ReadInput(raw)))
       /\ LET asked == <<UserMessage(<<Get(ReadInput(raw))>>)>>
              ev == EvalStreaming(asked, tools, service)
          IN  /\ history' = Append(asked, AssistantMessage(ev.response))
              /\ turn' = Some([first |-> 1, service |-> service,
                               response |-> ev.response, requests |-> ev.requests,
                               results |-> ev.results, executed |-> ev.executed])
  /\ prompts' = prompts + 1
  /\ UNCHANGED repl_pc
  /\ ReplIdle

\* a turn that pushes no assistant message when the round failed
ReplTurn_SkipsAnswerOnError ==
  /\ repl_pc = "prompt"
  /\ prompts < MaxPrompts
  /\ \E raw \in RawInputs, service \in Services :
       /\ IsSome(ReadInput(raw))
       /\ ~ShouldExit(Get(ReadInput(raw)))
       /\ LET asked == Append(history, UserMessage(<<Get(ReadInput(raw))>>))
              ev == EvalStreaming(asked, tools, service)
          IN  /\ history' = IF ev.results[1].ok
                            THEN Append(asked, AssistantMessage(ev.response))
                            ELSE asked
              /\ turn' = Some([first |-> Len(history) + 1, service |-> service,
                               response |-> ev.response, requests |-> ev.requests,
                               results |-> ev.results, executed |-> ev.executed])
  /\ prompts' = prompts + 1
  /\ UNCHANGED repl_pc
  /\ ReplIdle

\* one turn: push the user message, eval_streaming(history.clone(), ..), push the answer
ReplTurn ==
  /\ repl_pc = "prompt"
  /\ prompts < MaxPrompts
  /\ \E raw \in RawInputs, service \in Services :
       /\ IsSome(ReadInput(raw))
       /\ ~ShouldExit(Get(ReadInput(raw)))
       /\ LET asked == Append(history, UserMessage(<<Get(ReadInput(raw))>>))
              ev == EvalStreaming(asked, tools, service)
          IN  /\ history' = Append(asked, AssistantMessage(ev.response))
              /\ turn' = Some([first |-> Len(history) + 1, service |-> service,
                               response |-> ev.response, requests |-> ev.requests,
                               results |-> ev.results, executed |-> ev.executed])
  /\ prompts' = prompts + 1
  /\ UNCHANGED repl_pc
  /\ ReplIdle

ReplSpecInit ==
  /\ StreamInit
  /\ feed = {}
  /\ ReplInit
  /\ tools = MainRegistry
  /\ registered = <<GetTimeTool>>
  /\ call = None
  /\ defs = None

ReplNext == ReplSkip \/ ReplExit \/ ReplTurn

ReplSpec == ReplSpecInit /\ [][ReplNext]_vars

\* ------------------------------------------------------------------ the registry on its own
\* the names and inputs execute is called with
QueriedNames == {"get_current_time", "Get_Current_Time", "echo", "fail", "nonexistent"}
QueriedInputs == {EmptyObject, JObj({<< <<"a">>, JNum(1) >>})}

RegistryIdle == UNCHANGED <<streamVars, replVars>>

\* registry.register(tool)
Register ==
  /\ Len(registered) < MaxRegistrations
  /\ \E e \in Executors :
       /\ tools' = RegistryRegister(tools, e)
       /\ registered' = Append(registered, e)
  /\ UNCHANGED <<call, defs>>
  /\ RegistryIdle

\* registry.execute(name, input)
Execute ==
  /\ \E name \in QueriedNames, input \in QueriedInputs, now \in Clock :
       LET done == RegistryExecute(tools, name, input, now)
       IN  call' = Some([name |-> name, input |-> input, now |-> now, known |-> registered,
                         ret |-> done.ret, invoked |-> done.invoked])
  /\ UNCHANGED <<tools, registered, defs>>
  /\ RegistryIdle

\* registry.definitions(): the Vec comes in the map's iteration order, which is any order
Definitions ==
  /\ \E vec \in RegistryDefinitionsVec(tools) :
       defs' = Some([known |-> registered, tools |-> vec])
  /\ UNCHANGED <<tools, registered, call>>
  /\ RegistryIdle

RegistrySpecInit ==
  /\ StreamInit
  /\ feed = {}
  /\ ReplInit
  /\ RegistryInit

RegistryNext == Register \/ Execute \/ Definitions

RegistrySpec == RegistrySpecInit /\ [][RegistryNext]_vars

\* ------------------------------------------------------------------ C3
\* the ToolCalls of the first round of the last turn, <<>> when it failed
FirstRoundCalls == IF Get(turn).results[1].ok THEN Get(turn).results[1].tool_calls ELSE <<>>

\* C3 as stated: after a turn whose first round came back with tool calls, the
\* history holds, after the user's message, one assistant message with the ToolUse
\* blocks and one user message with one ToolResult per call, paired by id; every
\* call was executed through the registry in order; a further round was sent; and
\* the turn's answer is the text of the first round without tool calls.
C3_RoundTrip ==
  (IsSome(turn) /\ FirstRoundCalls # <<>>) =>
    LET t == Get(turn)
        calls == FirstRoundCalls
    IN  /\ Len(t.requests) >= 2
        /\ t.executed = [k \in 1..Len(calls) |->
                           [name |-> calls[k].name, input |-> calls[k].input]]
        /\ Len(history) >= t.first + 2
        /\ history[t.first + 1] = AssistantToolUse(calls)
        /\ history[t.first + 2].role = "user"
        /\ history[t.first + 2].content.kind = "blocks"
        /\ Len(history[t.first + 2].content.blocks) = Len(calls)
        /\ \A k \in 1..Len(calls) :
             /\ history[t.first + 2].content.blocks[k].type = "tool_result"
             /\ history[t.first + 2].content.blocks[k].tool_use_id = calls[k].id
        /\ \E r \in 1..Len(t.results) :
             /\ t.results[r].ok
             /\ t.results[r].tool_calls = <<>>
             /\ t.response = t.results[r].text

\* ------------------------------------------------------------------ C4
\* the String of a turn that failed with ToolLoopExceeded
IsToolLoopExceeded(response) ==
  Len(response) = 2 /\ response[1] = "Error: " /\ response[2] = "ToolLoopExceeded"

\* C4 as stated: a turn in which every round came back with tool calls ends in the
\* failure ToolLoopExceeded, never in an answer.
C4_LoopBound ==
  (/\ IsSome(turn)
   /\ \A r \in 1..Len(Get(turn).results) :
        Get(turn).results[r].ok /\ Get(turn).results[r].tool_calls # <<>>)
    => IsToolLoopExceeded(Get(turn).response)

\* ------------------------------------------------------------------ C10
\* the executor last registered under a name before the call, None when there is none
RECURSIVE LastRegistered(_, _)
LastRegistered(regs, name) ==
  IF regs = <<>> THEN None
  ELSE IF ExecutorName(regs[Len(regs)]) = name THEN Some(regs[Len(regs)])
  ELSE LastRegistered(SubSeq(regs, 1, Len(regs) - 1), name)

\* C10: a call of execute under a name no executor was registered under fails with
\* the unknown-tool error naming it and runs no executor; under a registered name it
\* runs the executor registered under exactly that name once, on the given input,
\* and returns that executor's Result, Ok or Err, as it is.
C10_RegistryLookup ==
  IsSome(call) =>
    LET c == Get(call)
        e == LastRegistered(c.known, c.name)
    IN  IF IsSome(e)
        THEN /\ Len(c.invoked) = 1
             /\ c.invoked[1].executor = Get(e)
             /\ c.invoked[1].input = c.input
             /\ c.ret = c.invoked[1].ret
             /\ c.ret = ExecutorExecute(Get(e), c.input, c.now)
        ELSE /\ c.invoked = <<>>
             /\ ~c.ret.ok
             /\ c.ret.out = <<"Unknown tool: ", c.name>>

\* execute("fail", ..) handed back the executor's own Err
C10_Witness ==
  /\ IsSome(call)
  /\ Get(call).name = "fail"
  /\ Len(Get(call).invoked) = 1
  /\ ~Get(call).ret.ok
  /\ Get(call).ret.out = <<"boom">>

\* ------------------------------------------------------------------ C11
\* the names the executors registered so far go by
RegisteredNames(regs) == {ExecutorName(regs[k]) : k \in 1..Len(regs)}

\* C11: after any sequence of register calls the registry holds one entry for each
\* distinct registered name and no other, each entry is the executor registered
\* last under its name, execute runs that executor, and definitions returns one
\* Tool for each distinct registered name, in some order.
C11_LastRegistrationWins ==
  /\ DOMAIN tools = RegisteredNames(registered)
  /\ \A n \in DOMAIN tools : Some(tools[n]) = LastRegistered(registered, n)
  /\ IsSome(call) =>
       \A k \in 1..Len(Get(call).invoked) :
         Some(Get(call).invoked[k].executor) = LastRegistered(Get(call).known, Get(call).name)
  /\ IsSome(defs) =>
       LET vec == Get(defs).tools
           names == RegisteredNames(Get(defs).known)
       IN  /\ Len(vec) = Cardinality(names)
           /\ {vec[k].name : k \in 1..Len(vec)} = names

\* GetTimeTool was replaced by a later executor of the same name: execute ran the
\* later one and definitions returned two Tools for three registrations
C11_Witness ==
  /\ registered = <<GetTimeTool, EchoTool, BrokenClockTool>>
  /\ tools["get_current_time"] = BrokenClockTool
  /\ IsSome(call)
  /\ Get(call).known = registered
  /\ Get(call).name = "get_current_time"
  /\ Get(call).ret = ExecErr(<<"clock unavailable">>)
  /\ IsSome(defs)
  /\ Get(defs).known = registered
  /\ Len(Get(defs).tools) = 2

\* ------------------------------------------------------------------ C12
\* C12: every step of the REPL leaves the messages already in the history where
\* they were and as they were, so the history changes only by growing at its end;
\* and what a turn sent to the service is the history up to the turn's user message,
\* still in place after the round.
C12_HistoryAppendOnly ==
  [][ /\ Len(history') >= Len(history)
      /\ SubSeq(history', 1, Len(history)) = history
      /\ IsSome(turn') =>
           \A k \in 1..Len(Get(turn').requests) :
             Get(turn').requests[k].messages = SubSeq(history', 1, Get(turn').first)
    ]_vars

\* a second turn was appended after the two messages of the first
C12_Witness ==
  /\ Len(history) = 4
  /\ IsSome(turn)
  /\ Get(turn).first = 3
  /\ Get(turn).requests[1].messages = SubSeq(history, 1, 3)

\* ------------------------------------------------------------------ C20
\* C20: after every completed turn the history has even length and alternates
\* user, assistant from the first message on, every message being plain text; the
\* assistant message of the last turn carries "Error: ..." when the round failed and
\* otherwise the text of the response, tool calls or not.
C20_HistoryAlternation ==
  /\ Len(history) % 2 = 0
  /\ \A i \in 1..Len(history) :
       /\ history[i].role = IF i % 2 = 1 THEN "user" ELSE "assistant"
       /\ history[i].content.kind = "text"
  /\ IsSome(turn) =>
       LET t == Get(turn)
           res == t.results[1]
       IN  /\ Len(history) = t.first + 1
           /\ history[t.first + 1].content.text =
                IF res.ok THEN res.text ELSE <<"Error: ", res.err>>

\* a turn whose round asked for a tool left an empty assistant text, and the turn
\* after it failed and left an error text
C20_Witness ==
  /\ Len(history) = 4
  /\ history[2] = AssistantMessage(<<>>)
  /\ history[4] = AssistantMessage(<<"Error: ", "Read error">>)
  /\ IsSome(turn)
  /\ ~Get(turn).results[1].ok

\* ------------------------------------------------------------------ steps of the line loop
\* this step read one more line
ReadsLine == pc = "reading" /\ Len(events') = Len(events) + 1
\* the line this step read
LineRead == events'[Len(events')]
\* this step left every local and the sink as they were and the loop running
LeavesAggregator ==
  /\ full_text' = full_text
  /\ stop_reason' = stop_reason
  /\ tool_calls' = tool_calls
  /\ current_tool_id' = current_tool_id
  /\ current_tool_name' = current_tool_name
  /\ current_tool_json' = current_tool_json
  /\ sink' = sink
  /\ pc' = "reading"
  /\ result' = None

\* the type of the delta a line carries, None when it carries none
DeltaKind(l) == IF IsSome(l.delta) THEN Get(l.delta).type ELSE None

\* ------------------------------------------------------------------ C13
\* C13 as stated: a payload never both appends text and appends to the tool buffer,
\* and never both opens and finalizes a tool call; text is appended only by a
\* content_block_delta of kind text_delta, the tool buffer only by one of kind
\* input_json_delta, and a tool call is finalized only by a content_block_stop.
C13_OneTransitionPerEvent ==
  [][ ReadsLine =>
        /\ ~(Len(full_text') > Len(full_text) /\ Len(current_tool_json') > Len(current_tool_json))
        /\ ~(IsToolUseStart(LineRead) /\ tool_calls' # tool_calls)
        /\ (full_text' # full_text =>
              LineRead.type = Some("content_block_delta") /\ DeltaKind(LineRead) = Some("text_delta"))
        /\ (Len(current_tool_json') > Len(current_tool_json) =>
              /\ LineRead.type = Some("content_block_delta")
              /\ DeltaKind(LineRead) = Some("input_json_delta"))
        /\ (tool_calls' # tool_calls => LineRead.type = Some("content_block_stop"))
    ]_vars

\* ------------------------------------------------------------------ C14
\* C14: the input of every ToolCall is built from the partial-JSON fragments read
\* after its tool_use block-start up to its block-stop and from nothing else: a
\* fragment read before that block-start, while no call was open, has no part in it.
C14_StrayPartialJsonDiscarded ==
  LET starts == ClosedStarts(events)
  IN  \A k \in 1..Len(tool_calls) :
        k <= Len(starts) /\
        tool_calls[k].input =
          FromStrOrEmpty(ConcatPartialJson(events, starts[k] + 1, StopAfter(events, starts[k])))

\* {"a":1 came before the block-start and } after it: the input is the empty
\* object that } alone degrades to, not {"a":1}
C14_Witness ==
  /\ Len(events) >= 4
  /\ events[1] = InputJsonDelta(JsonHead)
  /\ IsNamedToolUseStart(events[2])
  /\ events[3] = InputJsonDelta(JsonTail)
  /\ events[4] = BlockStop
  /\ Len(tool_calls) >= 1
  /\ tool_calls[1].input = EmptyObject

\* ------------------------------------------------------------------ C17
\* a payload that is no block-stop and parses as none of the event shapes
MatchesNoShape(l) ==
  /\ l.prefix = DataPrefix
  /\ l.body # "done"
  /\ ~IsBlockStop(l)
  /\ \/ l.body # "json"
     \/ ~IsSome(l.type)
     \/ Get(l.type) \notin {"content_block_start", "content_block_delta", "message_delta"}
     \/ Get(l.type) \in {"content_block_start", "content_block_delta"} /\ ~IsSome(l.index)

\* a block-start of kind text
IsTextStart(l) ==
  /\ IsPayload(l)
  /\ ~IsBlockStop(l)
  /\ l.type = Some("content_block_start")
  /\ IsSome(l.index)
  /\ IsSome(l.content_block)
  /\ Get(l.content_block).type = Some("text")

IsIgnored(l) ==
  l.prefix # DataPrefix \/ l.body = "done" \/ MatchesNoShape(l) \/ IsTextStart(l)

LastToolUseStart(evs) ==
  LET starts == ToolUseStarts(evs) IN IF starts = <<>> THEN 0 ELSE starts[Len(starts)]

\* C15: a tool_use block-start that is no block-stop adds nothing to tool_calls and
\* makes its own id and name the open call, with an empty buffer, whatever was open
\* before it; and whenever a ToolCall is added it is one ToolCall, with the id and
\* the name of the most recent tool_use block-start and an input built from the
\* fragments read after that block-start only.
C15_UnclosedCallReplaced ==
  [][ ReadsLine =>
        /\ (IsToolUseStart(LineRead) /\ ~IsBlockStop(LineRead)) =>
             /\ tool_calls' = tool_calls
             /\ current_tool_id' = Get(LineRead.content_block).id
             /\ current_tool_name' = Get(LineRead.content_block).name
             /\ current_tool_json' = <<>>
        /\ tool_calls' # tool_calls =>
             LET i == LastToolUseStart(events')
             IN  /\ i # 0
                 /\ IsNamedToolUseStart(events'[i])
                 /\ tool_calls' =
                      Append(tool_calls,
                             ToolCall(Get(Get(events'[i].content_block).id),
                                      Get(Get(events'[i].content_block).name),
                                      FromStrOrEmpty(ConcatPartialJson(events', i + 1, Len(events')))))
    ]_vars

\* t1 was opened and given {"a":1, then t2 was opened and given }: the one ToolCall
\* is t2's, with the empty object that } degrades to
C15_Witness ==
  /\ Len(events) = 5
  /\ events[1] = ToolUseStart(Some("t1"), Some("get_current_time"))
  /\ events[2] = InputJsonDelta(JsonHead)
  /\ events[3] = ToolUseStart(Some("t2"), Some("echo"))
  /\ events[4] = InputJsonDelta(JsonTail)
  /\ events[5] = BlockStop
  /\ tool_calls = <<ToolCall("t2", "echo", EmptyObject)>>

\* ------------------------------------------------------------------ C16
\* a call with both id and name is open when the stop handler sees the line l: the
\* start handler has run on l before it
OpenAtStop(l) ==
  IF IsToolUseStart(l) THEN IsNamedToolUseStart(l)
  ELSE IsSome(current_tool_id) /\ IsSome(current_tool_name)

C18_OnlyClosedCalls ==
  /\ ReturnedResponse =>
       /\ Get(result).tool_calls = tool_calls
       /\ Len(Get(result).tool_calls) = Len(ClosedStarts(events))
  /\ Len(tool_calls) <= Cardinality({j \in 1..Len(events) : IsBlockStop(events[j])})
  /\ \A k \in 1..Len(tool_calls) :
       \E i \in 1..Len(events) :
         /\ IsNamedToolUseStart(events[i])
         /\ StopAfter(events, i) # 0
         /\ Get(events[i].content_block).id = Some(tool_calls[k].id)
         /\ Get(events[i].content_block).name = Some(tool_calls[k].name)

\* t1 was closed, t2 was still open with a fragment in its buffer when the stream
\* ended: the response has t1 only
C18_Witness ==
  /\ ReturnedResponse
  /\ Len(events) = 4
  /\ events[1] = ToolUseStart(Some("t1"), Some("get_current_time"))
  /\ events[2] = BlockStop
  /\ events[3] = ToolUseStart(Some("t2"), Some("echo"))
  /\ events[4] = InputJsonDelta(JsonHead)
  /\ current_tool_id = Some("t2")
  /\ Get(result).tool_calls = <<ToolCall("t1", "get_current_time", EmptyObject)>>

\* ------------------------------------------------------------------ C19
\* a is a prefix of b
IsPrefixOf(a, b) == Len(a) <= Len(b) /\ SubSeq(b, 1, Len(a)) = a

\* C19: every step of the call leaves the old full_text a prefix of the new one and
\* the old tool_calls a prefix of the new one.
C19_AccumulatorsOnlyGrow ==
  [][IsPrefixOf(full_text, full_text') /\ IsPrefixOf(tool_calls, tool_calls')]_vars

\* a ToolCall was finalized, a later tool_use block-start was opened and closed, and
\* text came after: both calls and the text are there
C19_Witness ==
  /\ pc = "reading"
  /\ Len(events) = 5
  /\ IsNamedToolUseStart(events[1])
  /\ events[2] = BlockStop
  /\ IsNamedToolUseStart(events[3])
  /\ events[4] = BlockStop
  /\ CarriesText(events[5])
  /\ Len(tool_calls) = 2
  /\ tool_calls[1].id = Get(Get(events[1].content_block).id)
  /\ full_text = <<"A">>

====
